---- MODULE Spec2Model ----
(***************************************************************************)
(* Model of the Motriforge flatten / un-flatten tooling:                   *)
(*   scripts/process_ai_gen.py  extract_segments, process_all              *)
(*   scripts/flatten.py         remove_comments                            *)
(* Text is a sequence of one-character strings.  None is the empty         *)
(* sequence (Python tests it by truthiness, and no matched path is empty). *)
(***************************************************************************)
EXTENDS Integers, Sequences, FiniteSets, TLC

VARIABLES pc, content, segments, cleaned, gen_files, next_file, fs, failed,
          src_files, failures

vars == <<pc, content, segments, cleaned, gen_files, next_file, fs, failed,
          src_files, failures>>

(***************************************************************************)
(* Bounds of the model.                                                    *)
(***************************************************************************)
MaxPieces == 4

MaxStripPieces == 4

MaxFiles == 2

MaxSrcFiles == 3

MaxSourcePieces == 3

(***************************************************************************)
(* Text helpers.                                                           *)
(***************************************************************************)
RECURSIVE Concat(_)
Concat(ss) == IF ss = <<>> THEN <<>> ELSE Head(ss) \o Concat(Tail(ss))

Slice(s, a, b) == IF a > b THEN <<>> ELSE SubSeq(s, a, b)

\* s[i:i+Len(t)] == t on Python slices (a slice never raises)
HasAt(s, i, t) == /\ i >= 1
                  /\ i + Len(t) - 1 <= Len(s)
                  /\ \A k \in 1..Len(t) : s[i + k - 1] = t[k]

\* the first index >= i whose character is not in S (Len(s)+1 when there is none)
SkipWhile(s, i, S) ==
    CHOOSE j \in i..(Len(s) + 1) :
        /\ \A k \in i..(j - 1) : s[k] \in S
        /\ (j = Len(s) + 1 \/ s[j] \notin S)

\* the character classes of the patterns, restricted to the alphabet of the model
Letters == {"a", "b", "c", "e", "m", "r", "s", "t", "X", "Y"}

WordChars == Letters \cup {"_"}

PathChars == WordChars \cup {"-", ".", "/"}

BlankChars == {" ", "\t"}

LineBreaks == {"\n"}

SpaceChars == BlankChars \cup LineBreaks

\* str.strip() == ''
IsBlank(s) == \A k \in 1..Len(s) : s[k] \in SpaceChars

\* str.splitlines(keepends=True)
RECURSIVE SplitLinesKeep(_)
SplitLinesKeep(s) ==
    IF s = <<>> THEN <<>>
    ELSE LET e == SkipWhile(s, 1, {c \in {s[k] : k \in 1..Len(s)} : c \notin LineBreaks})
         IN  IF e > Len(s) THEN <<s>>
             ELSE <<Slice(s, 1, e)>> \o SplitLinesKeep(Slice(s, e + 1, Len(s)))

(***************************************************************************)
(* scripts/process_ai_gen.py                                               *)
(***************************************************************************)
\* path_pattern.match(line): the group 'path', or <<>> when the line does not match
\*   ^[ \t]*(?://|#)\s*(?P<path>@?[\w\-./]+\.[\w]+)
PathMatch(line) ==
    LET p1 == SkipWhile(line, 1, BlankChars)
        p2 == IF HasAt(line, p1, <<"/", "/">>) THEN p1 + 2
              ELSE IF HasAt(line, p1, <<"#">>) THEN p1 + 1
              ELSE 0
        p3 == SkipWhile(line, p2, SpaceChars)
        p4 == IF HasAt(line, p3, <<"@">>) THEN p3 + 1 ELSE p3
        e  == SkipWhile(line, p4, PathChars)
        \* greedy [\w\-./]+ backs off to the last "." that a word character follows
        ks == {k \in p4..(e - 1) : HasAt(line, k + 1, <<".">>)
                                   /\ k + 2 <= Len(line) /\ line[k + 2] \in WordChars}
        k  == CHOOSE x \in ks : \A y \in ks : y <= x
    IN  IF p2 = 0 \/ ks = {} THEN <<>>
        ELSE Slice(line, p3, SkipWhile(line, k + 2, WordChars) - 1)

\* str.replace(old, new): every non-overlapping occurrence, left to right
RECURSIVE Replace(_, _, _)
Replace(s, old, new) ==
    IF s = <<>> THEN <<>>
    ELSE IF HasAt(s, 1, old) THEN new \o Replace(Slice(s, Len(old) + 1, Len(s)), old, new)
    ELSE <<Head(s)>> \o Replace(Tail(s), old, new)

AliasToken == <<"@", "/">>

SrcDir == <<"s", "r", "c", "/">>

\* a slip of NormalizePath: the alias is not rewritten
NormalizePathRaw(raw_path) == raw_path

\* raw_path.replace('@/','src/') if raw_path.startswith('@/') else raw_path
NormalizePath(raw_path) ==
    IF HasAt(raw_path, 1, AliasToken) THEN Replace(raw_path, AliasToken, SrcDir) ELSE raw_path

\* a slip of SaveSegment: content for a path already saved last is merged into that segment
SaveSegmentMerged(segs, current_path, current_lines) ==
    IF current_path # <<>> /\ current_lines # <<>>
    THEN IF segs # <<>> /\ segs[Len(segs)][1] = current_path
         THEN [segs EXCEPT ![Len(segs)] = <<current_path, @[2] \o Concat(current_lines)>>]
         ELSE Append(segs, <<current_path, Concat(current_lines)>>)
    ELSE segs

\* a slip of SaveSegment: the pending segment is saved even when it has no content
SaveSegmentAlways(segs, current_path, current_lines) ==
    IF current_path # <<>>
    THEN Append(segs, <<current_path, Concat(current_lines)>>)
    ELSE segs

\* "if current_path and current_lines: segments.append((current_path, ''.join(current_lines)))"
SaveSegment(segs, current_path, current_lines) ==
    IF current_path # <<>> /\ current_lines # <<>>
    THEN Append(segs, <<current_path, Concat(current_lines)>>)
    ELSE segs

\* a slip of AfterAnnotation: the line after the annotation is never skipped
AfterAnnotationNoSkip(lines, i) == i + 1

\* a slip of AfterAnnotation: every blank line after the annotation is skipped
AfterAnnotationSkipAll(lines, i) ==
    CHOOSE j \in (i + 1)..(Len(lines) + 1) :
        /\ j = Len(lines) + 1 \/ ~IsBlank(lines[j])
        /\ \A h \in (i + 1)..(j - 1) : IsBlank(lines[h])

\* the cursor after an annotation line at i: past it, and past the next line if it is blank
AfterAnnotation(lines, i) ==
    IF i + 1 <= Len(lines) /\ IsBlank(lines[i + 1]) THEN i + 2 ELSE i + 1

\* the while loop of extract_segments, from cursor i, and the save after it
RECURSIVE ExtractLoop(_, _, _, _, _)
ExtractLoop(lines, i, current_path, current_lines, segs) ==
    IF i > Len(lines) THEN SaveSegment(segs, current_path, current_lines)
    ELSE LET raw_path == PathMatch(lines[i])
         IN  IF raw_path # <<>>
             THEN ExtractLoop(lines, AfterAnnotation(lines, i), NormalizePath(raw_path), <<>>,
                              SaveSegment(segs, current_path, current_lines))
             ELSE IF current_path # <<>>
             THEN ExtractLoop(lines, i + 1, current_path, Append(current_lines, lines[i]), segs)
             ELSE ExtractLoop(lines, i + 1, current_path, current_lines, segs)

\* a slip of extract_segments: content is attributed to a default path before any annotation
extract_segments_default(text) ==
    ExtractLoop(SplitLinesKeep(text), 1, <<"o", "u", "t">>, <<>>, <<>>)

extract_segments(text) == ExtractLoop(SplitLinesKeep(text), 1, <<>>, <<>>, <<>>)

(***************************************************************************)
(* Inputs of the segment extractor: texts made of at most MaxPieces pieces.*)
(***************************************************************************)
AnnAB == <<"/", "/", " ", "a", "/", "b", ".", "t", "s", "\n">>      \* // a/b.ts

AnnAlias == <<"#", "@", "/", "m", ".", "t", "s", "\n">>               \* #@/m.ts

AnnAt == <<"#", "@", "m", ".", "t", "s", "\n">>                     \* #@m.ts

AnnParent == <<"#", " ", ".", ".", "/", "e", ".", "t", "s", "\n">>    \* # ../e.ts

AnnAbsolute == <<"/", "/", " ", "/", "e", ".", "t", "s", "\n">>       \* // /e.ts

AnnDot == <<"#", " ", ".", "/", "a", "/", "b", ".", "t", "s", "\n">>  \* # ./a/b.ts

LineX == <<"X", "\n">>

TextY == <<"Y">>

ExtractPieces == {AnnAB, AnnAlias, AnnAt, AnnParent, <<"\n">>, <<" ">>, LineX, TextY}

TextsOf(pieces, n) == {Concat(ps) : ps \in UNION {[1..m -> pieces] : m \in 0..n}}

Idle == /\ segments = <<>> /\ cleaned = <<>> /\ gen_files = <<>>
        /\ next_file = 1 /\ fs = <<>> /\ failed = FALSE
        /\ src_files = <<>> /\ failures = {}

InitExtract ==
    /\ pc = "start"
    /\ content \in TextsOf(ExtractPieces, MaxPieces)
    /\ Idle

Extract ==
    /\ pc = "start"
    /\ segments' = extract_segments(content)
    /\ pc' = "done"
    /\ UNCHANGED <<content, cleaned, gen_files, next_file, fs, failed, src_files, failures>>

NextExtract == Extract

SpecExtract == InitExtract /\ [][NextExtract]_vars

(***************************************************************************)
(* scripts/process_ai_gen.py: process_all.  A path of the file system is   *)
(* the sequence of its components from "/"; fs maps the path of every file *)
(* to its content.                                                         *)
(***************************************************************************)
\* the parts of a path between its "/" separators
RECURSIVE SplitOnSlash(_)
SplitOnSlash(path) ==
    LET e == SkipWhile(path, 1, {c \in {path[k] : k \in 1..Len(path)} : c # "/"})
    IN  IF e > Len(path) THEN <<path>>
        ELSE <<Slice(path, 1, e - 1)>> \o SplitOnSlash(Slice(path, e + 1, Len(path)))

IsNamePart(part) == part # <<>> /\ part # <<".">>

\* the parts pathlib keeps of a path: empty parts and "." are dropped, ".." is kept
Components(path) == SelectSeq(SplitOnSlash(path), IsNamePart)

\* backend_root, resolved
BackendRoot == << <<"b", "a", "c", "k", "e", "n", "d">> >>

\* dest_path = backend_root / rel_path: an absolute rel_path replaces backend_root
DestPath(rel_path) ==
    IF rel_path # <<>> /\ rel_path[1] = "/" THEN Components(rel_path)
    ELSE BackendRoot \o Components(rel_path)

\* the file the operating system opens for a path: ".." steps to the parent
RECURSIVE Resolved(_, _)
Resolved(done, parts) ==
    IF parts = <<>> THEN done
    ELSE IF Head(parts) = <<".", ".">>
    THEN Resolved(Slice(done, 1, Len(done) - 1), Tail(parts))
    ELSE Resolved(Append(done, Head(parts)), Tail(parts))

FileOf(rel_path) == Resolved(<<>>, DestPath(rel_path))

\* a slip of WriteFile: the file is opened for appending
WriteFileAppend(files, file, code) ==
    IF file \in DOMAIN files THEN [files EXCEPT ![file] = @ \o code]
    ELSE (file :> code) @@ files

\* "with dest_path.open('w') as f: f.write(code)": the file holds code alone
WriteFile(files, file, code) == (file :> code) @@ files

\* the for loop over the first n segments, every write succeeding
RECURSIVE WriteSegments(_, _, _)
WriteSegments(files, segs, n) ==
    IF n = 0 THEN files
    ELSE WriteFile(WriteSegments(files, segs, n - 1), FileOf(segs[n][1]), segs[n][2])

\* a byte that is not UTF-8: read_text(encoding='utf-8') raises on it
InvalidByte == "\\xff"

Decodable(text) == \A k \in 1..Len(text) : text[k] # InvalidByte

\* the generated files of the model
GenTexts ==
    { AnnAB \o LineX,
      AnnAB \o LineX \o AnnAB \o TextY,
      AnnAB \o TextY \o <<"\n">> \o AnnAlias \o LineX,
      AnnAlias \o <<"\n">> \o TextY,
      AnnDot \o TextY,
      LineX,
      AnnParent \o LineX,
      AnnAbsolute \o TextY,
      AnnAB \o <<InvalidByte>> }

\* a file that is in the backend before the run
OldFile == FileOf(<<"a", "/", "b", ".", "t", "s">>)

OldContent == <<"o", "l", "d", "\n", "o", "l", "d", "\n">>

InitProcess ==
    /\ pc = "start"
    /\ gen_files \in UNION {[1..n -> GenTexts] : n \in 0..MaxFiles}
    /\ next_file = 1
    /\ fs = (OldFile :> OldContent)
    /\ failed = FALSE
    /\ content = <<>> /\ segments = <<>> /\ cleaned = <<>>
    /\ src_files = <<>> /\ failures = {}

\* one iteration of "for gen_file in generated_root.rglob('*')": every segment written
ProcessFile ==
    /\ pc = "start" /\ next_file <= Len(gen_files)
    /\ Decodable(gen_files[next_file])
    /\ LET segs == extract_segments(gen_files[next_file])
       IN  fs' = WriteSegments(fs, segs, Len(segs))
    /\ next_file' = next_file + 1
    /\ UNCHANGED <<pc, content, segments, cleaned, gen_files, failed, src_files, failures>>

\* a slip of process_all: the exception of a failing write is not caught
ProcessFileWriteFailsAborts ==
    /\ pc = "start" /\ next_file <= Len(gen_files)
    /\ Decodable(gen_files[next_file])
    /\ LET segs == extract_segments(gen_files[next_file])
       IN  \E n \in 0..(Len(segs) - 1) : fs' = WriteSegments(fs, segs, n)
    /\ failed' = TRUE
    /\ pc' = "done"
    /\ failures' = failures \cup {next_file}
    /\ UNCHANGED <<content, segments, cleaned, gen_files, next_file, src_files>>

\* one iteration where the write of segment n + 1 raises: mkdir or open raised
\* (the file is as it was) or write raised (the file was truncated by open);
\* the except clause ends the iteration
ProcessFileWriteFails ==
    /\ pc = "start" /\ next_file <= Len(gen_files)
    /\ Decodable(gen_files[next_file])
    /\ LET segs == extract_segments(gen_files[next_file])
       IN  \E n \in 0..(Len(segs) - 1) :
             \/ fs' = WriteSegments(fs, segs, n)
             \/ fs' = WriteFile(WriteSegments(fs, segs, n), FileOf(segs[n + 1][1]), <<>>)
    /\ failed' = TRUE
    /\ next_file' = next_file + 1
    /\ failures' = failures \cup {next_file}
    /\ UNCHANGED <<pc, content, segments, cleaned, gen_files, src_files>>

\* one iteration where read_text raises: the except clause ends the iteration
ProcessFileReadFails ==
    /\ pc = "start" /\ next_file <= Len(gen_files)
    /\ ~Decodable(gen_files[next_file])
    /\ next_file' = next_file + 1
    /\ failures' = failures \cup {next_file}
    /\ UNCHANGED <<pc, content, segments, cleaned, gen_files, fs, failed, src_files>>

\* the loop is over: process_all returns
ProcessReturn ==
    /\ pc = "start" /\ next_file > Len(gen_files)
    /\ pc' = "done"
    /\ UNCHANGED <<content, segments, cleaned, gen_files, next_file, fs, failed,
                   src_files, failures>>

NextProcess ==
    \/ ProcessFile
    \/ ProcessFileWriteFails
    \/ ProcessFileReadFails
    \/ ProcessReturn

SpecProcess == InitProcess /\ [][NextProcess]_vars

(***************************************************************************)
(* scripts/flatten.py: remove_comments.  The text it works on is a         *)
(* sequence of pairs <<character, position>>: every character carries the  *)
(* position it had in the input (0 for a character the function inserts),  *)
(* which no step of the function reads.                                    *)
(***************************************************************************)
Tagged(s) == [k \in 1..Len(s) |-> <<s[k], k>>]

Chars(ts) == [k \in 1..Len(ts) |-> ts[k][1]]

BlockOpen == <<"/", "*", "*">>

BlockClose == <<"*", "/">>

LineComment == <<"/", "/">>

QuoteChars == {"\"", "'"}

NoQuote == "False"

\* re.sub(r'/\*\*[\s\S]*?\*/', '', content): leftmost matches, each ending at the
\* first "*/" that starts after the "/**"
RECURSIVE RemoveBlockComments(_)
RemoveBlockComments(ts) ==
    IF ts = <<>> THEN <<>>
    ELSE LET s == Chars(ts)
             closes == {q \in (Len(BlockOpen) + 1)..Len(s) : HasAt(s, q, BlockClose)}
         IN  IF HasAt(s, 1, BlockOpen) /\ closes # {}
             THEN LET q == CHOOSE x \in closes : \A y \in closes : x <= y
                  IN  RemoveBlockComments(Slice(ts, q + Len(BlockClose), Len(ts)))
             ELSE <<Head(ts)>> \o RemoveBlockComments(Tail(ts))

\* str.splitlines(): the lines without their terminators
RECURSIVE SplitLines(_)
SplitLines(ts) ==
    IF ts = <<>> THEN <<>>
    ELSE LET s == Chars(ts)
             e == SkipWhile(s, 1, {c \in {s[k] : k \in 1..Len(s)} : c \notin LineBreaks})
         IN  IF e > Len(ts) THEN <<ts>>
             ELSE <<Slice(ts, 1, e - 1)>> \o SplitLines(Slice(ts, e + 1, Len(ts)))

\* a slip of QuoteAfter: any quote character closes the open quote
QuoteAfterAnyCloses(quote_open, c) == IF quote_open = NoQuote THEN c ELSE NoQuote

\* quote_open after the quote character c
QuoteAfter(quote_open, c) ==
    IF quote_open = NoQuote THEN c
    ELSE IF quote_open = c THEN NoQuote
    ELSE quote_open

\* the character scan of one line: new_line when the scan ends
RECURSIVE ScanLine(_, _, _, _)
ScanLine(line, i, quote_open, new_line) ==
    IF i > Len(line) THEN new_line
    ELSE IF line[i][1] \in QuoteChars
    THEN ScanLine(line, i + 1, QuoteAfter(quote_open, line[i][1]), Append(new_line, line[i]))
    ELSE IF quote_open = NoQuote /\ HasAt(Chars(line), i, LineComment)
    THEN new_line
    ELSE ScanLine(line, i + 1, quote_open, Append(new_line, line[i]))

\* a slip of RStrip: the line is appended as scanned
RStripNot(ts) == ts

\* str.rstrip()
RStrip(ts) ==
    LET nonblank == {k \in 1..Len(ts) : ts[k][1] \notin SpaceChars}
    IN  IF nonblank = {} THEN <<>>
        ELSE Slice(ts, 1, CHOOSE x \in nonblank : \A y \in nonblank : y <= x)

\* '\n'.join(cleaned_lines); the separators are new characters
RECURSIVE Join(_)
Join(ls) ==
    IF ls = <<>> THEN <<>>
    ELSE IF Len(ls) = 1 THEN ls[1]
    ELSE ls[1] \o <<(<<"\n", 0>>)>> \o Join(Tail(ls))

\* the for loop over the lines: cleaned_lines
RECURSIVE CleanLines(_)
CleanLines(lines) ==
    IF lines = <<>> THEN <<>>
    ELSE LET new_line == ScanLine(Head(lines), 1, NoQuote, <<>>)
         IN  IF ~IsBlank(Chars(new_line))
             THEN <<RStrip(new_line)>> \o CleanLines(Tail(lines))
             ELSE CleanLines(Tail(lines))

remove_comments(ts) == Join(CleanLines(SplitLines(RemoveBlockComments(ts))))

(***************************************************************************)
(* Inputs of the comment stripper: at most MaxStripPieces pieces.          *)
(***************************************************************************)
StripPieces ==
    { <<"/">>, <<"/", "/">>, <<"/", "*", "*">>, <<"*", "/">>,
      <<"\"">>, <<"'">>, <<"a">>, <<" ">>, <<"\n">> }

InitStrip ==
    /\ pc = "start"
    /\ content \in TextsOf(StripPieces, MaxStripPieces)
    /\ Idle

Strip ==
    /\ pc = "start"
    /\ cleaned' = remove_comments(Tagged(content))
    /\ pc' = "done"
    /\ UNCHANGED <<content, segments, gen_files, next_file, fs, failed, src_files, failures>>

NextStrip == Strip

SpecStrip == InitStrip /\ [][NextStrip]_vars

(***************************************************************************)
(* The flatten direction.  A source file is <<path relative to the source  *)
(* directory, text, whether the operating system lets it be read>>.        *)
(*   scripts/flatten.py  flatten_all_src, copy_and_clean_file              *)
(*   flatten.py          flatten_directory, unique_filename                *)
(***************************************************************************)
\* os.path.basename / the file name os.walk gives
BaseName(path) == SplitOnSlash(path)[Len(SplitOnSlash(path))]

\* OUTPUT_DIR / dest_dir
OutputDir == << <<"f", "l", "a", "t", "t", "e", "n">> >>

FlatFile(name) == OutputDir \o <<name>>

\* get_relative_path_comment: f"// {rel_path}\n\n"
RelativePathComment(rel_path) == <<"/", "/", " ">> \o rel_path \o <<"\n", "\n">>

\* a slip of copy_and_clean_file: the content is written as it was read
FlattenedAsRead(rel_path, text) == RelativePathComment(rel_path) \o text

\* what copy_and_clean_file writes: relative_comment + cleaned_content
Flattened(rel_path, text) ==
    RelativePathComment(rel_path) \o Chars(remove_comments(Tagged(text)))

\* os.path.splitext: the extension starts at the last dot that follows a
\* character other than a dot
SplitExt(name) ==
    LET dots == {d \in 2..Len(name) : name[d] = "." /\ \E k \in 1..(d - 1) : name[k] # "."}
        d == CHOOSE x \in dots : \A y \in dots : y <= x
    IN  IF dots = {} THEN <<name, <<>>>>
        ELSE <<Slice(name, 1, d - 1), Slice(name, d, Len(name))>>

DigitChars == <<"0", "1", "2", "3", "4", "5", "6", "7", "8", "9">>

\* str(counter)
RECURSIVE Decimal(_)
Decimal(n) ==
    IF n < 10 THEN <<DigitChars[n + 1]>>
    ELSE Decimal(n \div 10) \o <<DigitChars[(n % 10) + 1]>>

\* the while loop of unique_filename
RECURSIVE UniqueLoop(_, _, _, _)
UniqueLoop(files, filename, new_name, counter) ==
    IF FlatFile(new_name) \in DOMAIN files
    THEN UniqueLoop(files, filename,
                    SplitExt(filename)[1] \o <<"_">> \o Decimal(counter) \o SplitExt(filename)[2],
                    counter + 1)
    ELSE new_name

\* a slip of unique_filename: the name is taken as it is
unique_filename_same(files, filename) == filename

unique_filename(files, filename) == UniqueLoop(files, filename, filename, 1)

\* open(full_path, 'r', encoding='utf-8', errors='ignore'): undecodable bytes are dropped
ReadIgnoring(text) == SelectSeq(text, LAMBDA c : c # InvalidByte)

\* what write_flattened_file writes: f"// {comment_path}\n" and the lines read
\* (comment_path is the path relative to src_dir)
FlattenedRaw(rel_path, text) == <<"/", "/", " ">> \o rel_path \o <<"\n">> \o ReadIgnoring(text)

\* the source files of the model
SrcB1 == << <<"a", "/", "b", ".", "t", "s">>, <<"X", " ", "/", "/", "a", "\n">>, TRUE >>

SrcB2 == << <<"c", "/", "b", ".", "t", "s">>, <<"Y">>, TRUE >>

SrcB3 == << <<"e", "/", "b", ".", "t", "s">>, <<"X", "\n", "Y">>, TRUE >>

SrcB4 == << <<"b", "_", "1", ".", "t", "s">>, <<"Y", "\n">>, TRUE >>

SrcUndecodable == << <<"m", ".", "t", "s">>, <<"X", InvalidByte>>, TRUE >>

SrcUnreadable == << <<"c", "/", "d", ".", "t", "s">>, <<"X">>, FALSE >>

SrcSet == {SrcB1, SrcB2, SrcB3, SrcB4, SrcUndecodable, SrcUnreadable}

\* glob and os.walk give every file once
SrcLists ==
    {fl \in UNION {[1..n -> SrcSet] : n \in 0..MaxSrcFiles} :
        \A j, k \in 1..Len(fl) : j # k => fl[j] # fl[k]}

\* a file that is in the output directory before the run
OldFlat == FlatFile(<<"b", ".", "t", "s">>)

InitFlatten ==
    /\ \/ pc = "flatten_all_src" /\ fs \in {<<>>, (OldFlat :> OldContent)}
       \/ pc = "flatten_directory" /\ fs = <<>>
    /\ src_files \in SrcLists
    /\ next_file = 1
    /\ failed = FALSE /\ failures = {}
    /\ content = <<>> /\ segments = <<>> /\ cleaned = <<>> /\ gen_files = <<>>

\* flatten_all_src: a file of that name already exists in the output directory
FlattenSkipExisting ==
    /\ pc = "flatten_all_src" /\ next_file <= Len(src_files)
    /\ FlatFile(BaseName(src_files[next_file][1])) \in DOMAIN fs
    /\ next_file' = next_file + 1
    /\ UNCHANGED <<pc, content, segments, cleaned, gen_files, fs, failed, src_files, failures>>

\* flatten_all_src: copy_and_clean_file reads, cleans and writes the file
CopyAndClean ==
    /\ pc = "flatten_all_src" /\ next_file <= Len(src_files)
    /\ LET src == src_files[next_file]
           dest == FlatFile(BaseName(src[1]))
       IN  /\ dest \notin DOMAIN fs
           /\ src[3] /\ Decodable(src[2])
           /\ fs' = WriteFile(fs, dest, Flattened(src[1], src[2]))
    /\ next_file' = next_file + 1
    /\ UNCHANGED <<pc, content, segments, cleaned, gen_files, failed, src_files, failures>>

\* copy_and_clean_file: open or read raises (the file cannot be read or is not
\* UTF-8); the except clause ends the call
CopyAndCleanReadFails ==
    /\ pc = "flatten_all_src" /\ next_file <= Len(src_files)
    /\ LET src == src_files[next_file]
       IN  /\ FlatFile(BaseName(src[1])) \notin DOMAIN fs
           /\ ~(src[3] /\ Decodable(src[2]))
    /\ next_file' = next_file + 1
    /\ failures' = failures \cup {next_file}
    /\ UNCHANGED <<pc, content, segments, cleaned, gen_files, fs, failed, src_files>>

\* copy_and_clean_file: open(dest_path, 'w') raises (no file) or write raises
\* (the file was created empty); the except clause ends the call
CopyAndCleanWriteFails ==
    /\ pc = "flatten_all_src" /\ next_file <= Len(src_files)
    /\ LET src == src_files[next_file]
           dest == FlatFile(BaseName(src[1]))
       IN  /\ dest \notin DOMAIN fs
           /\ src[3] /\ Decodable(src[2])
           /\ \/ fs' = fs
              \/ fs' = WriteFile(fs, dest, <<>>)
    /\ next_file' = next_file + 1
    /\ failed' = TRUE
    /\ failures' = failures \cup {next_file}
    /\ UNCHANGED <<pc, content, segments, cleaned, gen_files, src_files>>

\* flatten_all_src returns
FlattenReturn ==
    /\ pc = "flatten_all_src" /\ next_file > Len(src_files)
    /\ pc' = "flatten_all_src_end"
    /\ UNCHANGED <<content, segments, cleaned, gen_files, next_file, fs, failed,
                   src_files, failures>>

\* flatten_directory: the file is read and written under a name not in use
FlattenDirWrite ==
    /\ pc = "flatten_directory" /\ next_file <= Len(src_files)
    /\ LET src == src_files[next_file]
       IN  /\ src[3]
           /\ fs' = WriteFile(fs, FlatFile(unique_filename(fs, BaseName(src[1]))),
                              FlattenedRaw(src[1], src[2]))
    /\ next_file' = next_file + 1
    /\ UNCHANGED <<pc, content, segments, cleaned, gen_files, failed, src_files, failures>>

\* flatten_directory: read_file_content returns None
FlattenDirReadFails ==
    /\ pc = "flatten_directory" /\ next_file <= Len(src_files)
    /\ ~src_files[next_file][3]
    /\ next_file' = next_file + 1
    /\ failures' = failures \cup {next_file}
    /\ UNCHANGED <<pc, content, segments, cleaned, gen_files, fs, failed, src_files>>

\* flatten_directory: write_flattened_file catches open raising (no file) or
\* write raising (the file was created empty)
FlattenDirWriteFails ==
    /\ pc = "flatten_directory" /\ next_file <= Len(src_files)
    /\ LET src == src_files[next_file]
       IN  /\ src[3]
           /\ \/ fs' = fs
              \/ fs' = WriteFile(fs, FlatFile(unique_filename(fs, BaseName(src[1]))), <<>>)
    /\ next_file' = next_file + 1
    /\ failed' = TRUE
    /\ failures' = failures \cup {next_file}
    /\ UNCHANGED <<pc, content, segments, cleaned, gen_files, src_files>>

\* flatten_directory returns
FlattenDirReturn ==
    /\ pc = "flatten_directory" /\ next_file > Len(src_files)
    /\ pc' = "flatten_directory_end"
    /\ UNCHANGED <<content, segments, cleaned, gen_files, next_file, fs, failed,
                   src_files, failures>>

NextFlatten ==
    \/ FlattenSkipExisting
    \/ CopyAndClean
    \/ CopyAndCleanReadFails
    \/ CopyAndCleanWriteFails
    \/ FlattenReturn
    \/ FlattenDirWrite
    \/ FlattenDirReadFails
    \/ FlattenDirWriteFails
    \/ FlattenDirReturn

SpecFlatten == InitFlatten /\ [][NextFlatten]_vars

(***************************************************************************)
(* Flatten, then extract from the flattened file.                          *)
(***************************************************************************)
RoundTripPaths ==
    { <<"a", "/", "b", ".", "t", "s">>,
      <<"@", "/", "m", ".", "t", "s">>,
      <<"@", "m", ".", "t", "s">>,
      <<"a", ".", "b", " ", "c">> }

SourcePieces ==
    { <<"/", "/">>, <<" ", "a", ".", "t", "s">>, <<"#">>, <<"\"">>, <<"'">>,
      <<"X">>, <<" ">>, <<"\n">>, <<"/", "*", "*", " ", "*", "/">> }

InitRoundTrip ==
    /\ pc = "flatten_all_src"
    /\ \E path \in RoundTripPaths, text \in TextsOf(SourcePieces, MaxSourcePieces) :
          src_files = << <<path, text, TRUE>> >>
    /\ fs = <<>> /\ next_file = 1
    /\ failed = FALSE /\ failures = {}
    /\ content = <<>> /\ segments = <<>> /\ cleaned = <<>> /\ gen_files = <<>>

\* extract_segments reads the file that flattening wrote
ExtractFlattened ==
    /\ pc = "flatten_all_src_end"
    /\ \E f \in DOMAIN fs :
          /\ content' = fs[f]
          /\ segments' = extract_segments(fs[f])
    /\ pc' = "done"
    /\ UNCHANGED <<cleaned, gen_files, next_file, fs, failed, src_files, failures>>

NextRoundTrip ==
    \/ CopyAndClean
    \/ FlattenReturn
    \/ ExtractFlattened

SpecRoundTrip == InitRoundTrip /\ [][NextRoundTrip]_vars

\* both directions
InitBatch == InitProcess \/ InitFlatten

NextBatch == NextProcess \/ NextFlatten

SpecBatch == InitBatch /\ [][NextBatch]_vars

(***************************************************************************)
(* What the claims about extract_segments speak of, stated on the lines L  *)
(* of the input and the set A of the indices of its annotation lines.      *)
(***************************************************************************)
IsAnnotation(line) == PathMatch(line) # <<>>

AnnotationsOf(L) == {i \in 1..Len(L) : IsAnnotation(L[i])}

\* the k-th smallest element of a set of numbers
Nth(S, k) == CHOOSE x \in S : Cardinality({y \in S : y < x}) = k - 1

\* the annotation after annotation i, or the end of the input
NextAnn(L, A, i) ==
    IF \E j \in A : j > i
    THEN CHOOSE j \in A : j > i /\ \A h \in A : h > i => j <= h
    ELSE Len(L) + 1

\* the lines between annotation i and the next one
Between(L, A, i) == Slice(L, i + 1, NextAnn(L, A, i) - 1)

\* line i is the blank line that directly follows an annotation
ConsumedBlank(L, A, i) == (i - 1) \in A /\ IsBlank(L[i])

\* the content lines of annotation i: those between, less the consumed blank line
Body(L, A, i) ==
    IF i + 1 <= Len(L) /\ ConsumedBlank(L, A, i + 1)
    THEN Slice(L, i + 2, NextAnn(L, A, i) - 1)
    ELSE Between(L, A, i)

\* the annotations that have content
EmittingOf(L, A) == {i \in A : Body(L, A, i) # <<>>}

\* the lines of L at the indices in S, in order
LinesAt(L, S) == Concat([k \in 1..Cardinality(S) |-> L[Nth(S, k)]])

Done == pc = "done"

(***************************************************************************)
(* Claims about extract_segments (checked under SpecExtract).              *)
(***************************************************************************)
\* every annotation line is directly followed by a non-blank content line
EachAnnotationHasContent(L, A) ==
    \A i \in A : /\ i + 1 <= Len(L)
                 /\ (i + 1) \notin A
                 /\ ~IsBlank(L[i + 1])

\* C1: when every annotation line is directly followed by a non-blank content
\* line, extract_segments returns one segment per annotation line, in the order
\* of the annotation lines, each with the normalized path of its annotation and
\* exactly the lines between that annotation and the next one (or the end of
\* the input); a path annotated twice gives two segments, never one merged.
C1_OrderPreserved ==
    Done =>
        LET L == SplitLinesKeep(content)
            A == AnnotationsOf(L)
        IN  EachAnnotationHasContent(L, A) =>
                segments = [k \in 1..Cardinality(A) |->
                              <<NormalizePath(PathMatch(L[Nth(A, k)])),
                                Concat(Between(L, A, Nth(A, k)))>>]

\* C1 witness: a finished run on an input that annotates the same path twice,
\* with different content, and returned two segments for it
C1_Witness ==
    /\ Done
    /\ LET L == SplitLinesKeep(content) IN EachAnnotationHasContent(L, AnnotationsOf(L))
    /\ Len(segments) = 2
    /\ segments[1][1] = segments[2][1]
    /\ segments[1][2] # segments[2][2]

\* the matched token with a leading "@/" rewritten to "src/"
AliasRewritten(token) ==
    IF Len(token) >= 2 /\ token[1] = "@" /\ token[2] = "/"
    THEN <<"s", "r", "c", "/">> \o Slice(token, 3, Len(token))
    ELSE token

\* C5: the path of every returned segment is the path token matched on the
\* annotation line that started it, with a leading "@/" rewritten to "src/",
\* and is the token unchanged when the token does not start with "@/".
C5_AliasNormalized ==
    Done =>
        LET L == SplitLinesKeep(content)
            E == EmittingOf(L, AnnotationsOf(L))
        IN  /\ Len(segments) = Cardinality(E)
            /\ \A k \in 1..Len(segments) :
                  segments[k][1] = AliasRewritten(PathMatch(L[Nth(E, k)]))

\* C5 witness: a finished run that returned a segment started by an "@/" annotation
\* and one started by an annotation whose token starts with "@" but not "@/"
C5_Witness ==
    /\ Done
    /\ LET L == SplitLinesKeep(content)
           E == EmittingOf(L, AnnotationsOf(L))
       IN  /\ \E k \in 1..Len(segments) :
                 /\ HasAt(PathMatch(L[Nth(E, k)]), 1, <<"@", "/">>)
                 /\ segments[k][1] = <<"s", "r", "c", "/", "m", ".", "t", "s">>
           /\ \E k \in 1..Len(segments) :
                 /\ ~HasAt(PathMatch(L[Nth(E, k)]), 1, <<"@", "/">>)
                 /\ HasAt(PathMatch(L[Nth(E, k)]), 1, <<"@">>)
                 /\ segments[k][1] = PathMatch(L[Nth(E, k)])

\* the lines L without line i, as text
WithoutLine(L, i) == Concat(Slice(L, 1, i - 1) \o Slice(L, i + 1, Len(L)))

\* annotation i is directly followed by another annotation or by the end of the input
Contentless(L, A, i) == i = Len(L) \/ (i + 1) \in A

\* C6: no returned segment has empty content; an annotation directly followed
\* by another annotation or by the end of the input produces no segment, and the
\* other segments are those of the input without that annotation line.
C6_NoEmptySegment ==
    Done =>
        LET L == SplitLinesKeep(content)
            A == AnnotationsOf(L)
            E == EmittingOf(L, A)
        IN  /\ \A k \in 1..Len(segments) : segments[k][2] # <<>>
            /\ Len(segments) = Cardinality(E)
            /\ \A i \in A : Contentless(L, A, i) =>
                  /\ i \notin E
                  /\ extract_segments(WithoutLine(L, i)) = segments

\* C6 witness: a finished run on an input where a content-less annotation is
\* followed by an annotation that has content, and only the latter gave a segment
C6_Witness ==
    /\ Done
    /\ Len(segments) = 1
    /\ LET L == SplitLinesKeep(content)
           A == AnnotationsOf(L)
       IN  \E i \in A : Contentless(L, A, i) /\ (i + 1) \in EmittingOf(L, A)

\* the returned segments, each after its original annotation line
Reconstruction(L, E) ==
    Concat([k \in 1..Len(segments) |-> L[Nth(E, k)] \o segments[k][2]])

\* C7 as stated: for every input the reconstruction is the input less the
\* blank line consumed after each annotation.
C7_Original ==
    Done =>
        LET L == SplitLinesKeep(content)
            A == AnnotationsOf(L)
        IN  Reconstruction(L, EmittingOf(L, A)) =
                LinesAt(L, {i \in 1..Len(L) : ~ConsumedBlank(L, A, i)})

\* C7 amended: the reconstruction is the input less the blank line consumed
\* after each annotation, less the lines before the first annotation, and less
\* the annotation lines that have no content.
C7_Reconstruction ==
    Done =>
        LET L == SplitLinesKeep(content)
            A == AnnotationsOf(L)
            E == EmittingOf(L, A)
        IN  /\ Len(segments) = Cardinality(E)
            /\ Reconstruction(L, E) =
                 LinesAt(L, {i \in 1..Len(L) :
                               /\ ~ConsumedBlank(L, A, i)
                               /\ \E a \in A : a <= i
                               /\ i \in A => i \in E})

\* C7 witness: a finished run on an input with lines before the first
\* annotation and a consumed blank line, that returned a segment
C7_Witness ==
    /\ Done
    /\ segments # <<>>
    /\ LET L == SplitLinesKeep(content)
           A == AnnotationsOf(L)
       IN  /\ 1 \notin A
           /\ \E i \in 1..Len(L) : ConsumedBlank(L, A, i)

\* the first annotation line, or past the end of the input
FirstAnn(L, A) == IF A = {} THEN Len(L) + 1 ELSE Nth(A, 1)

\* C8: the lines before the first annotation line reach no segment (the result
\* is that of the input from its first annotation line on, and no content is
\* longer than what follows that line), and an input without an annotation line
\* gives the empty list.
C8_PreambleDropped ==
    Done =>
        LET L == SplitLinesKeep(content)
            A == AnnotationsOf(L)
            f == FirstAnn(L, A)
        IN  /\ segments = extract_segments(Concat(Slice(L, f, Len(L))))
            /\ A = {} => segments = <<>>
            /\ \A k \in 1..Len(segments) :
                  Len(segments[k][2]) <= Len(Concat(Slice(L, f + 1, Len(L))))

\* C8 witness: a finished run on an input with non-blank content before its
\* first annotation that returned a segment
C8_Witness ==
    /\ Done
    /\ segments # <<>>
    /\ LET L == SplitLinesKeep(content)
       IN  FirstAnn(L, AnnotationsOf(L)) > 1 /\ ~IsBlank(L[1])

(***************************************************************************)
(* Claims about remove_comments (checked under SpecStrip).                 *)
(***************************************************************************)
\* the quote state before character i of the line s, by the rule of the scan:
\* a quote character opens when none is open and closes the quote it opened
RECURSIVE QuoteBefore(_, _)
QuoteBefore(s, i) ==
    IF i <= 1 THEN "none"
    ELSE LET q == QuoteBefore(s, i - 1)
             c == s[i - 1]
         IN  IF c \notin {"\"", "'"} THEN q
             ELSE IF q = "none" THEN c
             ELSE IF q = c THEN "none"
             ELSE q

\* where "//" stands on the line s
TokensAt(s) == {i \in 1..Len(s) : HasAt(s, i, <<"/", "/">>)}

\* where "//" stands outside any quote
UnquotedAt(s) == {i \in TokensAt(s) : QuoteBefore(s, i) = "none"}

\* the first "//" outside any quote, or past the end of the line
FirstUnquoted(s) ==
    IF UnquotedAt(s) = {} THEN Len(s) + 1
    ELSE CHOOSE x \in UnquotedAt(s) : \A y \in UnquotedAt(s) : x <= y

\* where "//" stands inside a quoted string that is closed later on the line
\* (and before any comment starts)
QuotedAt(s) ==
    {i \in TokensAt(s) :
        /\ QuoteBefore(s, i) # "none"
        /\ i < FirstUnquoted(s)
        /\ \E j \in (i + 2)..Len(s) : s[j] = QuoteBefore(s, i)}

\* the input positions of the characters of the output
KeptPositions == {cleaned[k][2] : k \in 1..Len(cleaned)} \ {0}

\* C2: on every line of the input where "//" stands outside any quote, no
\* character from that token to the end of the line is in the output.
C2_LineCommentRemoved ==
    Done =>
        LET lines == SplitLines(Tagged(content))
        IN  \A n \in 1..Len(lines) :
              LET s == Chars(lines[n])
              IN  \A k \in FirstUnquoted(s)..Len(s) : lines[n][k][2] \notin KeptPositions

\* C3 as stated: on every line of the input where "//" stands inside a matched
\* quoted string, the token and every character after it on the line are in
\* the output.
C3_Original ==
    Done =>
        LET lines == SplitLines(Tagged(content))
        IN  \A n \in 1..Len(lines) :
              \A i \in QuotedAt(Chars(lines[n])) :
                \A k \in i..Len(lines[n]) : lines[n][k][2] \in KeptPositions

\* the last character of s before index c that is not whitespace (0 if none)
LastNonSpace(s, c) ==
    LET ns == {k \in 1..(c - 1) : s[k] \notin {" ", "\t", "\n"}}
    IN  IF ns = {} THEN 0 ELSE CHOOSE x \in ns : \A y \in ns : y <= x

\* the characters i..e of the line stand in the output, side by side
StandsIn(line, i, e) ==
    \E o \in 0..(Len(cleaned) - (e - i + 1)) :
        \A k \in i..e : cleaned[o + k - i + 1] = line[k]

\* C3 amended: on every line of the text left by the block-comment pass where
\* "//" stands inside a matched quoted string, the token is not a comment start:
\* it is in the output with every character after it up to the first "//"
\* outside any quote (or the end of the line), less the whitespace that ends
\* that part of the line.
C3_QuotedTokenKept ==
    Done =>
        LET lines == SplitLines(RemoveBlockComments(Tagged(content)))
        IN  \A n \in 1..Len(lines) :
              LET s == Chars(lines[n])
              IN  \A i \in QuotedAt(s) :
                    /\ LastNonSpace(s, FirstUnquoted(s)) > i + 1
                    /\ StandsIn(lines[n], i, LastNonSpace(s, FirstUnquoted(s)))

\* C3 witness: a finished run on a line with "//" inside a matched quoted string
\* and a comment after the string
C3_Witness ==
    /\ Done
    /\ cleaned # <<>>
    /\ \E n \in 1..Len(SplitLines(Tagged(content))) :
          LET s == Chars(SplitLines(Tagged(content))[n])
          IN  QuotedAt(s) # {} /\ UnquotedAt(s) # {}

\* the text has no quote character and no comment token
PlainText(s) ==
    /\ \A k \in 1..Len(s) : s[k] \notin {"\"", "'"}
    /\ \A k \in 1..Len(s) : /\ ~HasAt(s, k, <<"/", "/">>)
                            /\ ~HasAt(s, k, <<"/", "*", "*">>)
                            /\ ~HasAt(s, k, <<"*", "/">>)

NonBlankLine(line) == \E k \in 1..Len(line) : line[k][1] \notin {" ", "\t", "\n"}

\* the line without the whitespace that ends it
RECURSIVE TrimRight(_)
TrimRight(line) ==
    IF line = <<>> \/ line[Len(line)][1] \notin {" ", "\t", "\n"} THEN line
    ELSE TrimRight(Slice(line, 1, Len(line) - 1))

\* C4 as stated: for a text without quote characters and comment tokens the
\* output is the text with its blank lines removed, every other character,
\* whitespace at the end of a line included, copied.
C4_Original ==
    (Done /\ PlainText(content)) =>
        cleaned = Join(SelectSeq(SplitLines(Tagged(content)), NonBlankLine))

\* C4 amended: for a text without quote characters and comment tokens the
\* output is the non-blank lines of the text, each without the whitespace that
\* ends it, joined by single newlines; every other character is copied.
C4_PlainTextKept ==
    (Done /\ PlainText(content)) =>
        LET lines == SelectSeq(SplitLines(Tagged(content)), NonBlankLine)
        IN  cleaned = Join([n \in 1..Len(lines) |-> TrimRight(lines[n])])

\* C4 witness: a finished run on a plain text with a blank line and a non-blank
\* line that ends with whitespace
C4_Witness ==
    /\ Done /\ PlainText(content)
    /\ cleaned # <<>>
    /\ LET lines == SplitLines(Tagged(content))
       IN  /\ \E n \in 1..Len(lines) : ~NonBlankLine(lines[n])
           /\ \E n \in 1..Len(lines) :
                 NonBlankLine(lines[n]) /\ TrimRight(lines[n]) # lines[n]

(***************************************************************************)
(* Claims about process_all (checked under SpecProcess).                   *)
(***************************************************************************)
\* the segments of all generated files that could be read, files in traversal
\* order and segments in in-file order
AllSegments ==
    Concat([k \in 1..Len(gen_files) |->
              IF Decodable(gen_files[k]) THEN extract_segments(gen_files[k]) ELSE <<>>])

\* the segments whose destination is the file f
TargetsOf(segs, f) == {k \in 1..Len(segs) : FileOf(segs[k][1]) = f}

\* C9: after process_all ends without a write failure, every file that is
\* the destination of a segment holds exactly the content of the last segment
\* written to it (files in traversal order, then segments in in-file order):
\* nothing of its previous content or of earlier segments remains.
C9_LastWriterWins ==
    (Done /\ ~failed) =>
        LET segs == AllSegments
        IN  \A k \in 1..Len(segs) :
              LET f == FileOf(segs[k][1])
                  last == CHOOSE x \in TargetsOf(segs, f) : \A y \in TargetsOf(segs, f) : y <= x
              IN  f \in DOMAIN fs /\ fs[f] = segs[last][2]

\* C9 witness: a finished run without a write failure in which a file that
\* existed before was the destination of two segments with different content
C9_Witness ==
    /\ Done /\ ~failed
    /\ OldFile \in DOMAIN fs /\ fs[OldFile] # OldContent
    /\ \E k1, k2 \in TargetsOf(AllSegments, OldFile) :
          k1 < k2 /\ AllSegments[k1][2] # AllSegments[k2][2]

\* the path does not start with "/" and has no ".." component
RelativeInside(path) ==
    /\ path # <<>> /\ path[1] # "/"
    /\ \A k \in 1..Len(SplitOnSlash(path)) : SplitOnSlash(path)[k] # <<".", ".">>

UnderBackendRoot(f) ==
    Len(f) > Len(BackendRoot) /\ Slice(f, 1, Len(BackendRoot)) = BackendRoot

\* C10: every path extract_segments returns is relative and has no ".."
\* component, and every file of the file system lies under the backend root
\* (process_all creates or overwrites no file outside it).
C10_WritesUnderRoot ==
    /\ \A k \in 1..Len(gen_files) :
          (k < next_file /\ Decodable(gen_files[k])) =>
              \A j \in 1..Len(extract_segments(gen_files[k])) :
                  RelativeInside(extract_segments(gen_files[k])[j][1])
    /\ \A f \in DOMAIN fs : UnderBackendRoot(f)

(***************************************************************************)
(* What the claims about the batches speak of                              *)
(***************************************************************************)
Running == pc \in {"start", "flatten_all_src", "flatten_directory"}

Ended == pc \in {"done", "flatten_all_src_end", "flatten_directory_end"}

\* the number of input files of the batch (one of the two lists is empty)
InputCount == Len(gen_files) + Len(src_files)

\* every segment of every generated file
BatchSegments ==
    UNION {{extract_segments(gen_files[j])[i] : i \in 1..Len(extract_segments(gen_files[j]))} :
             j \in {x \in 1..Len(gen_files) : Decodable(gen_files[x])}}

\* the output of generated file k is there: every file it names exists and
\* holds what a segment for that file says, or was cut short by a later failure
SegmentsWritten(k, all) ==
    LET segs == extract_segments(gen_files[k])
    IN  \A i \in 1..Len(segs) :
          /\ FileOf(segs[i][1]) \in DOMAIN fs
          /\ fs[FileOf(segs[i][1])] \in
                {<<>>} \cup {s[2] : s \in {t \in all : FileOf(t[1]) = FileOf(segs[i][1])}}

\* the output of source file k is there
SourceWritten(k) ==
    LET src == src_files[k]
    IN  IF pc \in {"flatten_directory", "flatten_directory_end"}
        THEN \E f \in DOMAIN fs : fs[f] = FlattenedRaw(src[1], src[2])
        ELSE FlatFile(BaseName(src[1])) \in DOMAIN fs

\* C11: in both directions a read or write failure on one input file never
\* aborts the batch: each step of a running batch ends with the loop at the
\* next file, the batch ends only after the last file, and every file that
\* has been passed without a failure has its outputs in place, whatever
\* failed before it.
C11_FailureNotFatal ==
    /\ [][(Running /\ next_file <= InputCount) =>
              (pc' = pc /\ next_file' = next_file + 1)]_vars
    /\ [](Ended => next_file = InputCount + 1)
    /\ [](LET all == BatchSegments
          IN  \A k \in 1..(next_file - 1) :
                k \notin failures =>
                  /\ k <= Len(gen_files) => SegmentsWritten(k, all)
                  /\ k <= Len(src_files) => SourceWritten(k))

\* the first generated file fails on a write, the second is written to a
\* file that did not exist before
C11_Witness ==
    /\ pc = "done" /\ Len(gen_files) = 2
    /\ failed /\ failures = {1}
    /\ LET segs == extract_segments(gen_files[2])
       IN  /\ Len(segs) > 0
           /\ FileOf(segs[1][1]) # OldFile
           /\ FileOf(segs[1][1]) \in DOMAIN fs
           /\ fs[FileOf(segs[1][1])] = segs[1][2]

(***************************************************************************)
(* What the claims about flattening speak of                               *)
(***************************************************************************)
Flattening == pc \in {"flatten_all_src", "flatten_directory"}

\* the i-th name tried for filename: filename, base_1.ext, base_2.ext, ...
Candidate(filename, i) ==
    IF i = 0 THEN filename
    ELSE SplitExt(filename)[1] \o <<"_">> \o Decimal(i) \o SplitExt(filename)[2]

\* the first of these names that no file of the output directory has
FirstFree(files, filename) ==
    LET free == {i \in 0..Cardinality(DOMAIN files) :
                    FlatFile(Candidate(filename, i)) \notin DOMAIN files}
    IN  Candidate(filename, CHOOSE i \in free : \A j \in free : i <= j)

Readable == {k \in 1..Len(src_files) : src_files[k][3]}

\* every file of the output directory stays as it is
FilesKept == \A f \in DOMAIN fs : f \in DOMAIN fs' /\ fs'[f] = fs[f]

\* a step of the skip-existing variant on a source whose base name exists
\* writes nothing
SkipsExisting ==
    (/\ pc = "flatten_all_src" /\ next_file <= Len(src_files)
     /\ FlatFile(BaseName(src_files[next_file][1])) \in DOMAIN fs)
       => fs' = fs

\* a step of the rename variant that writes a source writes it under the
\* first free name and nowhere else
WritesFirstFree ==
    (/\ pc = "flatten_directory" /\ next_file <= Len(src_files)
     /\ next_file \notin failures')
       => LET name == FirstFree(fs, BaseName(src_files[next_file][1]))
          IN  /\ DOMAIN fs' = DOMAIN fs \cup {FlatFile(name)}
              /\ FlatFile(name) \notin DOMAIN fs
              /\ fs'[FlatFile(name)] =
                    FlattenedRaw(src_files[next_file][1], src_files[next_file][2])

KeptAfter(L, A, i) ==
    {j \in (i + 1)..(NextAnn(L, A, i) - 1) : ~(j = i + 1 /\ IsBlank(L[j]))}

\* C13: after an annotation line at most one further line is skipped, the
\* line directly after it if and only if that line is blank or whitespace
\* only; every other line up to the next annotation, a second blank line and
\* later blank lines included, is content of the segment of that annotation,
\* and the skipped line is in no content.
C13_OneBlankSkipped ==
    Done =>
        LET L == SplitLinesKeep(content)
            A == AnnotationsOf(L)
            E == {i \in A : KeptAfter(L, A, i) # {}}
        IN  /\ Len(segments) = Cardinality(E)
            /\ \A k \in 1..Len(segments) :
                  segments[k][2] = LinesAt(L, KeptAfter(L, A, Nth(E, k)))

\* an annotation followed by a whitespace-only line and a second blank line:
\* the segment's content is that second line
C13_Witness ==
    /\ Done
    /\ LET L == SplitLinesKeep(content)
       IN  /\ Len(L) = 3
           /\ IsAnnotation(L[1])
           /\ L[2] = <<" ", "\n">>
           /\ L[3] = <<"\n">>
    /\ Len(segments) = 1
    /\ segments[1][2] = <<"\n">>

(***************************************************************************)
(* The round trip (checked under SpecRoundTrip).                           *)
(***************************************************************************)
\* the annotation pattern matches the path in full on the line "// path"
MatchedInFull(path) == PathMatch(<<"/", "/", " ">> \o path \o <<"\n">>) = path

\* the line is an annotation of the "#" form
HashAnnotation(line) ==
    /\ IsAnnotation(line)
    /\ HasAt(line, SkipWhile(line, 1, BlankChars), <<"#">>)

\* the round trip is claimed for this path and this stripped text
RoundTripCase(path, stripped) ==
    /\ MatchedInFull(path)
    /\ stripped # <<>>
    /\ \A k \in 1..Len(SplitLinesKeep(stripped)) : ~HashAnnotation(SplitLinesKeep(stripped)[k])

\* C14 as stated: the round trip returns exactly the single segment
\* (p, remove_comments(c)).
C14_Original ==
    Done =>
        LET path == src_files[1][1]
            stripped == Chars(remove_comments(Tagged(src_files[1][2])))
        IN  RoundTripCase(path, stripped) => segments = << <<path, stripped>> >>

\* C14: for a path p that the annotation pattern matches in full and a source
\* text c whose stripped text is not empty and has no line that is a "#"
\* annotation, extract_segments on the flattened file ("// p", one blank line,
\* remove_comments(c)) returns the single segment of remove_comments(c), under
\* p with a leading "@/" rewritten to "src/"; and no line of any stripped text
\* is taken for a "//" annotation.
C14_RoundTrip ==
    Done =>
        LET path == src_files[1][1]
            stripped == Chars(remove_comments(Tagged(src_files[1][2])))
            lines == SplitLinesKeep(stripped)
        IN  /\ content = <<"/", "/", " ">> \o path \o <<"\n", "\n">> \o stripped
            /\ \A k \in 1..Len(lines) : IsAnnotation(lines[k]) => HashAnnotation(lines[k])
            /\ RoundTripCase(path, stripped) =>
                  segments = << <<AliasRewritten(path), stripped>> >>

\* a source with a quoted "//" and a comment came back under its path
C14_Witness ==
    /\ Done
    /\ src_files[1][1] = <<"a", "/", "b", ".", "t", "s">>
    /\ src_files[1][2] = <<"\"", "/", "/", "/", "/">>
    /\ segments = << <<src_files[1][1], <<"\"", "/", "/", "/", "/">> >> >>

====
